---- MODULE Spec2Model ----
(***************************************************************************)
(* EnvioMain.py: one run of the fleet-status report.  main() fetches the   *)
(* exclusion tag and the GPS telemetry from Samsara, filters and           *)
(* classifies every vehicle record, renders the rows into a copy of        *)
(* Plantilla.xlsx, mails the file, sends it to every WhatsApp recipient    *)
(* and removes it.                                                         *)
(*                                                                         *)
(* JSON values are encoded with one type per field: a string field holds   *)
(* its text, Missing (the key is not in the object) or Null (JSON null);   *)
(* a numeric or boolean field holds the set of its value, {} when the key  *)
(* is missing; an object field carries a "kind" (Missing, Null or "dict"). *)
(***************************************************************************)
EXTENDS Integers, Sequences, FiniteSets, TLC

Missing == "<missing>"
Null == "<null>"

\* Largest telemetry payload (number of vehicle records) that is enumerated.
MaxVehicles == 3

(***************************************************************************)
(* Program constants                                                       *)
(***************************************************************************)
predefined_special ==
    { "254792506", "254801835", "254802150", "254802588",
      "254803338", "254859196", "94193861", "95243156",
      "95243200", "95243316", "95243513", "244349505",
      "245970120", "254794170", "254794716", "257477773" }

\* os.getenv("WHATSAPP_DESTINOS", "").split(","): never an empty list.
DESTINOS == << "5215500000001", "5215500000002" >>

\* datetime.now(MX_TZ), in minutes since midnight UTC of the day of the run.
now_mx == 720

\* timedelta(hours=1), in minutes.
one_hour == 60

start_row == 7

(***************************************************************************)
(* dateutil's parser on the timestamps of the model: the instant, in       *)
(* minutes since midnight UTC; astimezone() keeps the instant.  Any other  *)
(* non-empty string makes dp.parse raise.                                  *)
(***************************************************************************)
Timestamps ==
    [ t \in { "2025-03-01T10:00:00Z", "2025-03-01T10:59:00Z",
              "2025-03-01T11:00:00Z", "2025-03-01T12:00:00Z" } |->
        CASE t = "2025-03-01T10:00:00Z" -> 600
          [] t = "2025-03-01T10:59:00Z" -> 659
          [] t = "2025-03-01T11:00:00Z" -> 660
          [] t = "2025-03-01T12:00:00Z" -> 720 ]

Parseable(t) == t \in DOMAIN Timestamps

parse(t) == Timestamps[t]

\* Python truthiness of a string field: absent, null and "" are falsy.
Truthy(s) == s \notin { Missing, Null, "" }

\* str() of a value inside an f-string: None for an absent or null field.
Str(s) == IF s \in { Missing, Null } THEN "None" ELSE s

\* dict.get(key, default) on a set-encoded field.
Get(field, default) == IF field = {} THEN default ELSE CHOOSE v \in field : TRUE

(***************************************************************************)
(* Telemetry records                                                       *)
(***************************************************************************)
NoAddress == [ kind |-> Missing, id |-> Missing ]
NoReverseGeo == [ kind |-> Missing, formattedLocation |-> Missing ]

\* gps = u.get("gps", {}) when the key is absent: every lookup finds nothing.
EmptyGps ==
    [ kind |-> Missing, time |-> Missing, address |-> NoAddress,
      speedMilesPerHour |-> {}, isEcuSpeed |-> {},
      reverseGeo |-> NoReverseGeo, latitude |-> Missing, longitude |-> Missing ]

NullGps == [ EmptyGps EXCEPT !.kind = Null ]

Address(id) == [ kind |-> "dict", id |-> id ]

\* An element of the "data" list that is not a JSON object.
NonDict == [ kind |-> "other", name |-> Missing, gps |-> EmptyGps ]

Vehicle(name, gps) == [ kind |-> "dict", name |-> name, gps |-> gps ]

(***************************************************************************)
(* Lines 153-176: one iteration of the processing loop.                    *)
(***************************************************************************)
\* line 159
TooOldMutReversed(now, loc_time) == loc_time - now > one_hour

TooOld(now, loc_time) == now - loc_time > one_hour

\* lines 127-131
SpecialIdsMutNoUnion(new_ids) == predefined_special

SpecialIds(new_ids) == predefined_special \cup new_ids

\* lines 127-130: the identifiers of the tag's addresses, falsy ones skipped.
NewIds(addresses) ==
    { addresses[j].id : j \in { k \in 1..Len(addresses) : Truthy(addresses[k].id) } }

\* line 167
StatusMutEcuOnly(speed, ecu) == IF ecu THEN "DETENIDO" ELSE "RUTA"

Status(speed, ecu) == IF speed = 0 /\ ecu THEN "DETENIDO" ELSE "RUTA"

\* lines 168-169
Location(gps) ==
    IF Truthy(gps.reverseGeo.formattedLocation)
    THEN gps.reverseGeo.formattedLocation
    ELSE "Lat: " \o Str(gps.latitude) \o ", Lon: " \o Str(gps.longitude)

\* line 171
UnitName(u) == IF u.name = Missing THEN "Sin nombre" ELSE u.name

\* lines 170-174
Row(u, gps) ==
    [ Unidad |-> UnitName(u),
      Ubicacion |-> Location(gps),
      Estatus |-> Status(Get(gps.speedMilesPerHour, 0), Get(gps.isEcuSpeed, FALSE)) ]

(***************************************************************************)
(* What the iteration does with u: "row" (a row is appended), "skip" (a    *)
(* continue), "caught" (an exception reaches the handler of line 175,      *)
(* which logs it) or "abort" (the handler itself raises: u.get on a value  *)
(* that is not a dict, line 176).                                          *)
(***************************************************************************)
Outcome(u, special, now) ==
    IF u.kind # "dict" THEN "abort"
    ELSE IF u.gps.kind = Null THEN "caught"
    ELSE LET gps == u.gps
             t == gps.time
             speed == Get(gps.speedMilesPerHour, 0)
             ecu == Get(gps.isEcuSpeed, FALSE)
         IN  IF Truthy(t) /\ ~Parseable(t) THEN "caught"
             ELSE IF Truthy(t) /\ TooOld(now, parse(t)) THEN "skip"
             ELSE IF gps.address.kind = Null THEN "caught"
             ELSE IF gps.address.id \in special THEN "skip"
             ELSE IF speed = 0 /\ ~ecu THEN "skip"
             ELSE IF gps.reverseGeo.kind = Null THEN "caught"
             ELSE "row"

\* line 170
AppendRowMutPrepend(results, row) == << row >> \o results

AppendRow(results, row) == Append(results, row)

(***************************************************************************)
(* The worksheet.  A merged range is [min_row, min_col, max_row, max_col]; *)
(* a row of the grid holds the cells the report uses: column A (1), the    *)
(* location cell B (2), the status cell I (9) with its fill and font, and  *)
(* whether the cells of columns 1-9 carry the thin border.  The grid runs  *)
(* from the header row above start_row to the last row a payload can fill. *)
(***************************************************************************)
Rows == (start_row - 1)..(start_row + MaxVehicles)

EmptyRow == [ A |-> "", B |-> "", I |-> "", fill |-> "", font |-> "", border |-> FALSE ]

HeaderRow == [ EmptyRow EXCEPT !.A = "Unidad", !.B = "Ubicacion", !.I = "Estatus" ]

NoFormula == [ fn |-> "", col |-> "", from |-> 0, to |-> 0 ]

Range(r1, c1, r2, c2) == [ min_row |-> r1, min_col |-> c1, max_row |-> r2, max_col |-> c2 ]

Sheet(merged) ==
    [ merged |-> merged,
      cells |-> [ r \in Rows |-> IF r = start_row - 1 THEN HeaderRow ELSE EmptyRow ],
      C2 |-> "", F2 |-> "", H2 |-> NoFormula ]

\* Plantilla.xlsx as the report expects it: a title merge, the header row
\* and the location merges of the first data rows.
StdTemplate == Sheet({ Range(1, 1, 1, 9), Range(7, 2, 7, 8), Range(8, 2, 8, 8) })

\* Merged ranges a template may hold: above the data rows, starting in
\* them, and starting above them but reaching into them (C6:D7, A6:A7).
TemplateRanges ==
    { Range(1, 1, 1, 9), Range(7, 2, 7, 8), Range(8, 2, 9, 8),
      Range(6, 3, 7, 4), Range(6, 1, 7, 1) }

Templates == { Sheet(m) : m \in SUBSET TemplateRanges }

\* lines 184-186
KeptMerges(merged) == { mr \in merged : ~(mr.min_row >= start_row) }

\* line 208
RowMerge(r) == Range(r, 2, r, 8)

\* A cell of a merged range other than its top-left one is a MergedCell:
\* openpyxl refuses to assign its value.
IsMergedCell(merged, r, c) ==
    \E mr \in merged :
        /\ mr.min_row <= r /\ r <= mr.max_row
        /\ mr.min_col <= c /\ c <= mr.max_col
        /\ ~(r = mr.min_row /\ c = mr.min_col)

\* lines 204, 210, 214: the cells that are given a value (columns 1, 2, 9).
WriteRaises(merged, n) ==
    \E r \in start_row..(start_row + n - 1) :
        \E c \in { 1, 2, 9 } : IsMergedCell(merged, r, c)

\* lines 216-221
Fill(status) == IF status = "DETENIDO" THEN "FFC7CE" ELSE "C6EFCE"
Font(status) == IF status = "DETENIDO" THEN "9C0006" ELSE "006100"

\* line 202: enumerate(results, start=start_row)
RowIndex(j) == start_row + j - 1

\* lines 202-221
WrittenRow(row) ==
    [ A |-> row.Unidad, B |-> row.Ubicacion, I |-> row.Estatus,
      fill |-> Fill(row.Estatus), font |-> Font(row.Estatus), border |-> TRUE ]

\* lines 224-225
CountFormula(n) ==
    [ fn |-> "COUNTA", col |-> "A", from |-> start_row, to |-> start_row + n - 1 ]

\* lines 182-225
Rendered(sheet, rows) ==
    LET n == Len(rows)
        written == { RowIndex(j) : j \in 1..n }
    IN  [ merged |-> KeptMerges(sheet.merged) \cup { RowMerge(r) : r \in written },
          cells |-> [ r \in Rows |->
                        IF \E j \in 1..n : RowIndex(j) = r
                        THEN WrittenRow(rows[CHOOSE j \in 1..n : RowIndex(j) = r])
                        ELSE sheet.cells[r] ],
          C2 |-> "2025-03-01", F2 |-> "06:00:00",
          H2 |-> CountFormula(n) ]

(***************************************************************************)
(* What a spreadsheet program shows for the COUNTA formula: the range      *)
(* between two cell references is the rectangle they span, whichever is    *)
(* written first, and COUNTA counts its non-empty cells.                   *)
(***************************************************************************)
RangeRows(f) ==
    (IF f.from <= f.to THEN f.from ELSE f.to)..(IF f.from <= f.to THEN f.to ELSE f.from)

CountA(sheet) == Cardinality({ r \in RangeRows(sheet.H2) \cap Rows : sheet.cells[r].A # "" })

(***************************************************************************)
(* The inputs of a run: the answer of the tag endpoint, the answer of the  *)
(* telemetry endpoint and the template file.                               *)
(***************************************************************************)
Gps(t, address, speed, ecu, reverseGeo, lat, lon) ==
    [ kind |-> "dict", time |-> t, address |-> address,
      speedMilesPerHour |-> speed, isEcuSpeed |-> ecu,
      reverseGeo |-> reverseGeo, latitude |-> lat, longitude |-> lon ]

Formatted(text) == [ kind |-> "dict", formattedLocation |-> text ]

\* Scenario records: only an address identifier, a speed and the ECU flag.
Bare(id, speed, ecu) ==
    Vehicle(Missing, Gps(Missing, Address(id), { speed }, { ecu }, NoReverseGeo, Missing, Missing))

\* The records the payloads of several vehicles are drawn from.
FleetRecords ==
    { Bare("X1", 30, TRUE), Bare("X2", 0, TRUE), Bare("X3", 0, FALSE),
      Vehicle("U1", Gps("2025-03-01T12:00:00Z", Address("A9"), { 45 }, { FALSE },
                        Formatted("Av. Reforma 222, CDMX"), "19.43", "-99.13")),
      Vehicle("U2", Gps("2025-03-01T10:00:00Z", NoAddress, { 40 }, { FALSE },
                        NoReverseGeo, "19.43", "-99.13")),
      Vehicle("U3", NullGps),
      NonDict }

\* Every shape of a single record.
AllRecords ==
    { Vehicle("U1", Gps(t, a, s, e, g, "19.43", "-99.13")) :
        t \in { Missing, Null, "ayer" } \cup DOMAIN Timestamps,
        a \in { NoAddress, [ kind |-> Null, id |-> Missing ],
                Address("X1"), Address("254792506"), Address("X2") },
        s \in { {}, { 0 }, { 30 } },
        e \in { {}, { FALSE }, { TRUE } },
        g \in { NoReverseGeo, [ kind |-> Null, formattedLocation |-> Missing ],
                Formatted("Av. Reforma 222, CDMX"), Formatted(Missing) } }

RECURSIVE Lists(_, _)
Lists(S, n) ==
    IF n = 0 THEN { << >> }
    ELSE LET shorter == Lists(S, n - 1)
         IN  shorter \cup { Append(l, x) : l \in { m \in shorter : Len(m) = n - 1 }, x \in S }

TagPayloads == { << >>, << [ id |-> "X1" ], [ id |-> Missing ], [ id |-> "" ] >> }

Environment(token, tags, data, sheet) ==
    [ token |-> token, tags |-> tags, data |-> data, template |-> sheet ]

NoTokenEnvironment == Environment("", << >>, << >>, StdTemplate)

\* Payloads of up to MaxVehicles fleet records, and every single record.
Environments ==
    { Environment("token", tags, data, StdTemplate) :
        tags \in TagPayloads,
        data \in Lists(FleetRecords, MaxVehicles) \cup { << u >> : u \in AllRecords } }
    \cup { NoTokenEnvironment }

\* Every template, with payloads of rows of both statuses and dropped records.
TemplateEnvironments ==
    { Environment("token", << >>, data, sheet) :
        data \in Lists({ Bare("X2", 0, TRUE), Bare("X1", 30, TRUE), Vehicle("U3", NullGps) },
                       MaxVehicles),
        sheet \in Templates }
    \cup { NoTokenEnvironment }

SmallEnvironments ==
    { Environment("token", tags, data, StdTemplate) :
        tags \in TagPayloads, data \in Lists(FleetRecords, 1) }
    \cup { NoTokenEnvironment }

(***************************************************************************)
(* State                                                                   *)
(***************************************************************************)
VARIABLES
    SAMSARA_API_TOKEN,    \* the environment variable
    tagsRemote,           \* data.addresses of GET /tags/4363967
    vehRemote,            \* data of GET /fleet/vehicles/stats
    template,             \* Plantilla.xlsx on disk
    pc,                   \* the stage main() is in
    run,                  \* "running", "ok" (main returned), "exit1" (sys.exit(1)),
                          \* "traceback" (an uncaught exception ended the process)
    special_address_ids,
    vehicles,
    results,
    idx,                  \* position of the loop of line 153 in vehicles
    ws,                   \* the worksheet in memory
    file_exists,          \* nuevo_archivo is on disk
    emailed,              \* the SMTP server accepted the message
    dest,                 \* position of the loop of line 257 in DESTINOS
    delivered,            \* recipients whose template message was accepted
    log                   \* reporte_logs.log

vars ==
    << SAMSARA_API_TOKEN, tagsRemote, vehRemote, template, pc, run,
       special_address_ids, vehicles, results, idx, ws, file_exists,
       emailed, dest, delivered, log >>

inputs == << SAMSARA_API_TOKEN, tagsRemote, vehRemote, template >>

Start(envs) ==
    /\ \E e \in envs :
        /\ SAMSARA_API_TOKEN = e.token
        /\ tagsRemote = e.tags
        /\ vehRemote = e.data
        /\ template = e.template
    /\ pc = "start"
    /\ run = "running"
    /\ special_address_ids = {}
    /\ vehicles = << >>
    /\ results = << >>
    /\ idx = 1
    /\ ws = Sheet({})
    /\ file_exists = FALSE
    /\ emailed = FALSE
    /\ dest = 1
    /\ delivered = {}
    /\ log = << >>

Init == Start(Environments)

At(stage) == pc = stage /\ run = "running"

\* logging.exception / logging.error followed by sys.exit(1)
Exit1(message) ==
    /\ run' = "exit1"
    /\ log' = Append(log, message)

\* lines 98-103
Begin ==
    /\ At("start")
    /\ IF SAMSARA_API_TOKEN = ""
       THEN /\ run' = "exit1"
            /\ log' = log \o << "Inicio de ejecucion", "Falta SAMSARA_API_TOKEN" >>
            /\ pc' = pc
       ELSE /\ run' = run
            /\ log' = Append(log, "Inicio de ejecucion")
            /\ pc' = "tags"
    /\ UNCHANGED << inputs, special_address_ids, vehicles, results, idx, ws,
                    file_exists, emailed, dest, delivered >>

(***************************************************************************)
(* Lines 117-134: GET /tags/4363967 (timeout=60) is in flight.             *)
(***************************************************************************)
TagsOk ==
    /\ At("tags")
    /\ special_address_ids' = SpecialIds(NewIds(tagsRemote))
    /\ pc' = "vehicles"
    /\ UNCHANGED << inputs, run, vehicles, results, idx, ws, file_exists,
                    emailed, dest, delivered, log >>

\* an error status, a transport error or a malformed body
TagsFail ==
    /\ At("tags")
    /\ Exit1("Error al obtener tags")
    /\ UNCHANGED << inputs, pc, special_address_ids, vehicles, results, idx, ws,
                    file_exists, emailed, dest, delivered >>

\* no answer within the timeout
TagsTimeout ==
    /\ At("tags")
    /\ Exit1("Error al obtener tags")
    /\ UNCHANGED << inputs, pc, special_address_ids, vehicles, results, idx, ws,
                    file_exists, emailed, dest, delivered >>

(***************************************************************************)
(* Lines 137-152: GET /fleet/vehicles/stats (timeout=60) is in flight.     *)
(***************************************************************************)
VehOk ==
    /\ At("vehicles")
    /\ vehicles' = vehRemote
    /\ results' = << >>
    /\ idx' = 1
    /\ pc' = IF vehRemote = << >> THEN "load" ELSE "records"
    /\ UNCHANGED << inputs, run, special_address_ids, ws, file_exists,
                    emailed, dest, delivered, log >>

VehFail ==
    /\ At("vehicles")
    /\ Exit1("Error al obtener datos de vehiculos")
    /\ UNCHANGED << inputs, pc, special_address_ids, vehicles, results, idx, ws,
                    file_exists, emailed, dest, delivered >>

VehTimeout ==
    /\ At("vehicles")
    /\ Exit1("Error al obtener datos de vehiculos")
    /\ UNCHANGED << inputs, pc, special_address_ids, vehicles, results, idx, ws,
                    file_exists, emailed, dest, delivered >>

(***************************************************************************)
(* Lines 153-176: one iteration of "for u in vehicles".  When u is not a   *)
(* dict, u.get raises inside the try and again inside the f-string of the  *)
(* handler, before logging.exception is called: the exception leaves       *)
(* main().                                                                 *)
(***************************************************************************)
ProcessRecord ==
    /\ At("records")
    /\ LET u == vehicles[idx]
           o == Outcome(u, special_address_ids, now_mx)
       IN  IF o = "abort"
           THEN /\ run' = "traceback"
                /\ UNCHANGED << pc, results, idx, log >>
           ELSE /\ results' = IF o = "row" THEN AppendRow(results, Row(u, u.gps)) ELSE results
                /\ log' = IF o = "caught"
                          THEN Append(log, "Procesando unidad " \o Str(u.name))
                          ELSE log
                /\ idx' = idx + 1
                /\ pc' = IF idx = Len(vehicles) THEN "load" ELSE "records"
                /\ run' = run
    /\ UNCHANGED << inputs, special_address_ids, vehicles, ws, file_exists,
                    emailed, dest, delivered >>

(***************************************************************************)
(* Lines 179-231: the workbook.  None of it is inside a try.               *)
(***************************************************************************)
LoadOk ==
    /\ At("load")
    /\ ws' = template
    /\ pc' = "render"
    /\ UNCHANGED << inputs, run, special_address_ids, vehicles, results, idx,
                    file_exists, emailed, dest, delivered, log >>

\* Plantilla.xlsx is missing or unreadable
LoadFail ==
    /\ At("load")
    /\ run' = "traceback"
    /\ UNCHANGED << inputs, pc, special_address_ids, vehicles, results, idx, ws,
                    file_exists, emailed, dest, delivered, log >>

\* lines 182-225
Render ==
    /\ At("render")
    /\ IF WriteRaises(KeptMerges(ws.merged), Len(results))
       THEN /\ run' = "traceback"
            /\ UNCHANGED << pc, ws >>
       ELSE /\ ws' = Rendered(ws, results)
            /\ pc' = "save"
            /\ run' = run
    /\ UNCHANGED << inputs, special_address_ids, vehicles, results, idx,
                    file_exists, emailed, dest, delivered, log >>

\* lines 228-231
SaveOk ==
    /\ At("save")
    /\ file_exists' = TRUE
    /\ log' = Append(log, "Excel generado")
    /\ pc' = "email"
    /\ UNCHANGED << inputs, run, special_address_ids, vehicles, results, idx, ws,
                    emailed, dest, delivered >>

SaveFail ==
    /\ At("save")
    /\ run' = "traceback"
    /\ UNCHANGED << inputs, pc, special_address_ids, vehicles, results, idx, ws,
                    file_exists, emailed, dest, delivered, log >>

(***************************************************************************)
(* Lines 234-254: the SMTP session (timeout=60) is in progress.            *)
(***************************************************************************)
EmailOk ==
    /\ At("email")
    /\ emailed' = TRUE
    /\ log' = Append(log, "Correo enviado")
    /\ dest' = 1
    /\ pc' = IF Len(DESTINOS) = 0 THEN "remove" ELSE "upload"
    /\ UNCHANGED << inputs, run, special_address_ids, vehicles, results, idx, ws,
                    file_exists, delivered >>

EmailFail ==
    /\ At("email")
    /\ Exit1("Error enviando correo")
    /\ UNCHANGED << inputs, pc, special_address_ids, vehicles, results, idx, ws,
                    file_exists, emailed, dest, delivered >>

EmailTimeout ==
    /\ At("email")
    /\ Exit1("Error enviando correo")
    /\ UNCHANGED << inputs, pc, special_address_ids, vehicles, results, idx, ws,
                    file_exists, emailed, dest, delivered >>

(***************************************************************************)
(* Lines 257-263 with subir_media (51-65) and enviar_template (67-95):     *)
(* requests.post is called without a timeout, so only an answer or a       *)
(* transport error ends the wait.                                          *)
(***************************************************************************)
UploadOk ==
    /\ At("upload")
    /\ log' = Append(log, "Media subido")
    /\ pc' = "send"
    /\ UNCHANGED << inputs, run, special_address_ids, vehicles, results, idx, ws,
                    file_exists, emailed, dest, delivered >>

UploadFail ==
    /\ At("upload")
    /\ Exit1("Error enviando WhatsApp a " \o DESTINOS[dest])
    /\ UNCHANGED << inputs, pc, special_address_ids, vehicles, results, idx, ws,
                    file_exists, emailed, dest, delivered >>

SendOk ==
    /\ At("send")
    /\ delivered' = delivered \cup { DESTINOS[dest] }
    /\ log' = Append(log, "Template enviado a " \o DESTINOS[dest])
    /\ dest' = dest + 1
    /\ pc' = IF dest = Len(DESTINOS) THEN "remove" ELSE "upload"
    /\ UNCHANGED << inputs, run, special_address_ids, vehicles, results, idx, ws,
                    file_exists, emailed >>

SendFail ==
    /\ At("send")
    /\ Exit1("Error enviando WhatsApp a " \o DESTINOS[dest])
    /\ UNCHANGED << inputs, pc, special_address_ids, vehicles, results, idx, ws,
                    file_exists, emailed, dest, delivered >>

(***************************************************************************)
(* Lines 265-271                                                           *)
(***************************************************************************)
RemoveOk ==
    /\ At("remove")
    /\ file_exists' = FALSE
    /\ log' = log \o << "Archivo eliminado", "Ejecucion finalizada correctamente" >>
    /\ pc' = "end"
    /\ run' = "ok"
    /\ UNCHANGED << inputs, special_address_ids, vehicles, results, idx, ws,
                    emailed, dest, delivered >>

RemoveFail ==
    /\ At("remove")
    /\ log' = log \o << "No se pudo eliminar", "Ejecucion finalizada correctamente" >>
    /\ pc' = "end"
    /\ run' = "ok"
    /\ UNCHANGED << inputs, special_address_ids, vehicles, results, idx, ws,
                    file_exists, emailed, dest, delivered >>

\* The steps the process takes by itself.
Local ==
    \/ Begin \/ ProcessRecord \/ LoadOk \/ LoadFail \/ Render
    \/ SaveOk \/ SaveFail \/ RemoveOk \/ RemoveFail

\* The answers of the remote services.
Answers ==
    \/ TagsOk \/ TagsFail \/ VehOk \/ VehFail \/ EmailOk \/ EmailFail
    \/ UploadOk \/ UploadFail \/ SendOk \/ SendFail

\* The timers of the calls that were given a timeout.
Timeouts == TagsTimeout \/ VehTimeout \/ EmailTimeout

Next == Local \/ Answers \/ Timeouts

Spec == Init /\ [][Next]_vars

SpecTemplate == Start(TemplateEnvironments) /\ [][Next]_vars

\* The process keeps running and a timer that was set fires; nothing makes
\* a remote service answer.
FairSpec == Start(SmallEnvironments) /\ [][Next]_vars /\ WF_vars(Local) /\ WF_vars(Timeouts)

(***************************************************************************)
(* Properties                                                              *)
(***************************************************************************)
\* The record the loop is about to process.
Current == vehicles[idx]

\* The exclusion set as the specification defines it: the baked-in
\* identifiers and those the tag endpoint returned.
ExclusionSet ==
    predefined_special \cup
    ({ tagsRemote[j].id : j \in 1..Len(tagsRemote) } \ { Missing, Null, "" })

\* The record gets through the staleness gate: a well-formed record with no
\* timestamp, or with one that parses and is at most one hour old.
PassesStaleness(u) ==
    /\ u.kind = "dict"
    /\ u.gps.kind # Null
    /\ \/ u.gps.time \in { Missing, Null }
       \/ Parseable(u.gps.time) /\ now_mx - parse(u.gps.time) <= one_hour

\* The record gets through the exclusion gate.
PassesExclusion(u) ==
    /\ u.gps.address.kind # Null
    /\ u.gps.address.id \notin ExclusionSet

\* The step appends exactly one row, of the given status.
OneRowAdded(status) ==
    /\ Len(results') = Len(results) + 1
    /\ SubSeq(results', 1, Len(results)) = results
    /\ results'[Len(results')].Estatus = status

SpeedAndEcuDecide(u) ==
    LET speed == Get(u.gps.speedMilesPerHour, 0)
        ecu == Get(u.gps.isEcuSpeed, FALSE)
    IN  /\ (speed = 0 /\ ~ecu) => results' = results
        /\ (speed = 0 /\ ecu) => OneRowAdded("DETENIDO")
        /\ speed # 0 => OneRowAdded("RUTA")

AfterLoop == pc \notin { "start", "tags", "vehicles", "records" }

ScenarioA ==
    /\ ExclusionSet = predefined_special \cup { "X1" }
    /\ vehicles = << Bare("X1", 30, TRUE), Bare("X2", 0, TRUE), Bare("X3", 0, FALSE) >>
    /\ AfterLoop

\* C2: a record whose address identifier is in the exclusion set (baked-in
\* or fetched) yields no row, whatever its speed, ECU flag and timestamp;
\* in scenario A the result list is exactly the STOPPED row of X2.
C2_ExcludedAddressNeverReported ==
    /\ [][ (/\ At("records")
            /\ Current.kind = "dict"
            /\ Current.gps.kind = "dict"
            /\ Current.gps.address.kind = "dict"
            /\ Current.gps.address.id \in ExclusionSet)
               => results' = results ]_vars
    /\ [](ScenarioA =>
            results = << [ Unidad |-> "Sin nombre",
                           Ubicacion |-> "Lat: None, Lon: None",
                           Estatus |-> "DETENIDO" ] >>)

\* Scenario A has run through the loop.
C2_Witness == ScenarioA /\ pc = "load" /\ Len(results) = 1

\* C3: a record with a parseable timestamp more than one hour old yields no
\* row whatever its other fields; a record without a timestamp is not
\* dropped for it: when it passes the exclusion gate, is not noise and its
\* location derives, it yields a row.
C3_StaleNeverReported ==
    /\ [][ (/\ At("records")
            /\ Current.kind = "dict"
            /\ Current.gps.kind = "dict"
            /\ Parseable(Current.gps.time)
            /\ now_mx - parse(Current.gps.time) > one_hour)
               => results' = results ]_vars
    /\ [][ (/\ At("records")
            /\ Current.kind = "dict"
            /\ Current.gps.kind = "dict"
            /\ Current.gps.time = Missing
            /\ PassesExclusion(Current)
            /\ ~(Get(Current.gps.speedMilesPerHour, 0) = 0
                 /\ ~Get(Current.gps.isEcuSpeed, FALSE))
            /\ Current.gps.reverseGeo.kind # Null)
               => Len(results') = Len(results) + 1 ]_vars

\* Scenario B: a moving vehicle whose fix is two hours old was dropped.
C3_Witness ==
    /\ pc = "load"
    /\ Len(vehicles) = 1
    /\ vehicles[1].gps.time = "2025-03-01T10:00:00Z"
    /\ vehicles[1].gps.speedMilesPerHour = { 30 }
    /\ PassesExclusion(vehicles[1])
    /\ vehicles[1].gps.reverseGeo.kind = "dict"
    /\ results = << >>

RenderedStages == { "save", "email", "upload", "send", "remove", "end" }

Survives(j) == Outcome(vehicles[j], special_address_ids, now_mx) = "row"

\* The number of surviving records among the first j.
Rank(j) == Cardinality({ m \in 1..j : Survives(m) })

\* C4: every record contributes at most one row, and the k-th surviving
\* record, in input order, is on spreadsheet row 7 + k; the rows below the
\* last one are untouched.
C4_RowsInInputOrder ==
    pc \in RenderedStages =>
        /\ Len(results) = Rank(Len(vehicles))
        /\ \A j \in 1..Len(vehicles) :
              Survives(j) =>
                 LET cell == ws.cells[start_row + Rank(j) - 1]
                     u == vehicles[j]
                 IN  /\ cell.A = UnitName(u)
                     /\ cell.B = Location(u.gps)
                     /\ cell.I = Status(Get(u.gps.speedMilesPerHour, 0),
                                        Get(u.gps.isEcuSpeed, FALSE))
        /\ \A r \in Rows : r >= start_row + Rank(Len(vehicles)) => ws.cells[r] = EmptyRow

\* Two different rows with a dropped record between them were rendered.
C4_Witness ==
    /\ pc = "save"
    /\ Len(vehicles) = 3
    /\ Survives(1) /\ ~Survives(2) /\ Survives(3)
    /\ ws.cells[start_row] # ws.cells[start_row + 1]
    /\ ws.cells[start_row + 1].A = UnitName(vehicles[3])

\* C5: a record whose processing raises never ends the run: the loop goes
\* on to the next record and the run reaches the rendering, with one log
\* line for every record that raised.
C5_RecordFailureNeverAborts ==
    /\ pc = "records" => run = "running"
    /\ AfterLoop =>
          /\ idx = Len(vehicles) + 1
          /\ Cardinality({ j \in 1..Len(vehicles) :
                             Outcome(vehicles[j], special_address_ids, now_mx) # "row"
                             /\ Outcome(vehicles[j], special_address_ids, now_mx) # "skip" })
               = Cardinality({ j \in 1..Len(log) : log[j] \in { "Procesando unidad U1",
                                                                "Procesando unidad U3",
                                                                "Procesando unidad None" } })

\* C6: a run in which a stage failed has delivered the report to nobody.
C6_AllOrNothing ==
    run \in { "exit1", "traceback" } => (~emailed /\ delivered = {})

\* C7: the count formula spans exactly the written rows 7 .. 6 + n, never
\* the header row, and shows n, the number of rows.
C7_CountIsRowCount ==
    pc \in RenderedStages =>
        /\ RangeRows(ws.H2) \subseteq start_row..(start_row + Len(results) - 1)
        /\ CountA(ws) = Len(results)

\* C8: when the run has ended the output file is gone.
C8_FileIsTransient == run # "running" => ~file_exists

\* C9: every run ends, by returning or by exiting.
C9_Terminates == <>(run # "running")

Overlap(a, b) ==
    /\ a.min_row <= b.max_row /\ b.min_row <= a.max_row
    /\ a.min_col <= b.max_col /\ b.min_col <= a.max_col

\* C10: after rendering, the merged ranges reaching row 7 or below are
\* exactly the location merges of the written rows, and no two merged
\* ranges overlap.
C10_OnlyRowMergesInData ==
    pc \in RenderedStages =>
        /\ { mr \in ws.merged : mr.max_row >= start_row }
              = { Range(r, 2, r, 8) : r \in start_row..(start_row + Len(results) - 1) }
        /\ \A a, b \in ws.merged : a # b => ~Overlap(a, b)

====
